---- MODULE Spec2Model ----
(***************************************************************************)
(* Trivia API (backend/flaskr/__init__.py): the question store, the        *)
(* pagination helper and the seven request handlers, as a state machine.   *)
(* Strings that are searched are sequences of one-character strings; all   *)
(* other strings are TLA+ strings.  A JSON object is a record that has     *)
(* exactly the keys the object has; Python's None is the record None.      *)
(***************************************************************************)
EXTENDS Integers, Sequences, FiniteSets, TLC

VARIABLES questions, next_id, categories, request, response, session

vars == <<questions, next_id, categories, request, response, session>>

QUESTIONS_PER_PAGE == 10

(***************************************************************************)
(* Bounds of the model.                                                    *)
(***************************************************************************)
MaxId == 3          \* ids the store hands out in Spec
MaxLen == 24        \* longest selection paginated in SpecPaginate
MaxSeed == 11       \* largest seeded store in SpecPages
MaxPage == 3        \* largest page number requested
MaxPool == 4        \* largest seeded store in SpecQuiz
MaxDeletes == 3     \* successful deletions explored in one run
MaxExtraCalls == 2  \* quiz calls made after the session has seen null

None == [none |-> TRUE]

(***************************************************************************)
(* Python and library helpers.                                             *)
(***************************************************************************)
Min(a, b) == IF a < b THEN a ELSE b

Max(a, b) == IF a > b THEN a ELSE b

\* seq[start:end] of Python, negative indices counted from the end.
PySlice(seq, start, end) ==
    LET n  == Len(seq)
        lo == IF start < 0 THEN Max(n + start, 0) ELSE Min(start, n)
        hi == IF end < 0 THEN Max(n + end, 0) ELSE Min(end, n)
    IN  IF lo >= hi THEN << >> ELSE SubSeq(seq, lo + 1, hi)

\* dict.get(key, None)
get(body, key) == IF key \in DOMAIN body THEN body[key] ELSE None

\* dict.get(key, None) is None
missing(body, key) == key \notin DOMAIN body

\* x in list
InList(x, list) == \E i \in DOMAIN list : list[i] = x

Digit(d) == <<"0", "1", "2", "3", "4", "5", "6", "7", "8", "9">>[d + 1]

RECURSIVE str(_)
\* str(n) of a non-negative int
str(n) == IF n < 10 THEN Digit(n) ELSE str(n \div 10) \o Digit(n % 10)

\* lower-casing of one character, as ILIKE folds case
Lower(c) == CASE c = "A" -> "a" [] c = "B" -> "b" [] c = "Z" -> "z" [] OTHER -> c

RECURSIVE Like(_, _)
\* text LIKE pattern: % matches any run of characters, _ any one character
Like(text, pattern) ==
    IF pattern = << >> THEN text = << >>
    ELSE IF Head(pattern) = "%"
         THEN Like(text, Tail(pattern)) \/ (text # << >> /\ Like(Tail(text), pattern))
    ELSE IF Head(pattern) = "_"
         THEN text # << >> /\ Like(Tail(text), Tail(pattern))
    ELSE text # << >> /\ Head(text) = Head(pattern) /\ Like(Tail(text), Tail(pattern))

\* column.ilike(pattern)
ilike(text, pattern) ==
    Like([i \in DOMAIN text |-> Lower(text[i])], [i \in DOMAIN pattern |-> Lower(pattern[i])])

(***************************************************************************)
(* The question store (models.Question) and the category store.            *)
(***************************************************************************)
\* Question(question=..., answer=..., difficulty=..., category=...) with the id of insert()
Question(id, question, answer, difficulty, category) ==
    [id |-> id, question |-> question, answer |-> answer,
     difficulty |-> difficulty, category |-> category]

\* Question.format()
format(q) ==
    [id |-> q.id, question |-> q.question, answer |-> q.answer,
     difficulty |-> q.difficulty, category |-> q.category]

Ids(store) == {q.id : q \in store}

RECURSIVE order_by_id(_)
\* Query.order_by(Question.id).all()
order_by_id(store) ==
    IF store = {} THEN << >>
    ELSE LET first == CHOOSE q \in store : \A r \in store : q.id <= r.id
         IN  <<first>> \o order_by_id(store \ {first})

\* [f(x) for x in seq]
formatted(seq) == [i \in DOMAIN seq |-> format(seq[i])]

\* {c.id: c.type for c in categories}
category_map(cats) == cats

SeededCategories == [c \in {1, 2} |-> IF c = 1 THEN "Science" ELSE "Art"]

(***************************************************************************)
(* Error handlers (flaskr/__init__.py:287-313).                            *)
(***************************************************************************)
not_found == [status |-> 404, body |-> [error |-> 404, message |-> "Not Found"]]

unprocessable == [status |-> 422, body |-> [error |-> 422, message |-> "Unprocessable"]]

bad_request == [status |-> 400, body |-> [error |-> 400, message |-> "Bad Request"]]

sever_error == [status |-> 500, body |-> [error |-> 500, message |-> "Sever Error"]]

jsonify(b) == [status |-> 200, body |-> b]

\* Flask's built-in answer to a request whose content type is not JSON
unsupported_media_type == [status |-> 415, body |-> [error |-> 415, message |-> "Unsupported Media Type"]]

\* request.get_json() found no JSON document.  With a Flask whose get_json()
\* returns None the handler uses None as a dict (a TypeError or AttributeError
\* outside any try block: 500); with a Flask whose get_json() rejects the
\* request itself the answer is 400 or 415.
no_json_outcomes == {sever_error, bad_request, unsupported_media_type}

(***************************************************************************)
(* paginate_questions                                                      *)
(***************************************************************************)
\* request.args.get('page', 1, type=int); the argument is << >> when absent
page_of(page_arg) == IF page_arg = << >> THEN 1 ELSE page_arg[1]

\* variant: the slice starts at page * QUESTIONS_PER_PAGE
paginate_questions_from_page(page_arg, selection) ==
    LET page  == page_of(page_arg)
        start == page * QUESTIONS_PER_PAGE
        end   == start + QUESTIONS_PER_PAGE
        qs    == formatted(selection)
    IN  PySlice(qs, start, end)

paginate_questions(page_arg, selection) ==
    LET page  == page_of(page_arg)
        start == (page - 1) * QUESTIONS_PER_PAGE
        end   == start + QUESTIONS_PER_PAGE
        qs    == formatted(selection)
    IN  PySlice(qs, start, end)

(***************************************************************************)
(* GET /categories                                                         *)
(***************************************************************************)
get_categories_response(cats) ==
    IF DOMAIN cats = {} THEN not_found
    ELSE jsonify([success |-> TRUE, categories |-> category_map(cats)])

(***************************************************************************)
(* GET /questions                                                          *)
(***************************************************************************)
\* variant: an empty page is answered with abort(404)
get_questions_response_abort(store, cats, page_arg) ==
    LET q_set == order_by_id(store)
        current_questions == paginate_questions(page_arg, q_set)
    IN  IF Len(current_questions) = 0
        THEN not_found
        ELSE jsonify([success |-> TRUE,
                      questions |-> current_questions,
                      total_questions |-> Len(q_set),
                      categories |-> category_map(cats),
                      current_category |-> None])

get_questions_response(store, cats, page_arg) ==
    LET q_set == order_by_id(store)
        current_questions == paginate_questions(page_arg, q_set)
    IN  IF Len(current_questions) = 0
        THEN jsonify([success |-> FALSE, message |-> "resource not found"])
        ELSE jsonify([success |-> TRUE,
                      questions |-> current_questions,
                      total_questions |-> Len(q_set),
                      categories |-> category_map(cats),
                      current_category |-> None])

(***************************************************************************)
(* DELETE /questions/<int:question_id>                                     *)
(***************************************************************************)
\* variant: the page is cut from the selection read before question.delete()
delete_question_try_stale(store, question_id, page_arg) ==
    LET question == {q \in store : q.id = question_id}
    IN  IF question = {}
        THEN [raised |-> TRUE, store |-> store, response |-> not_found]
        ELSE LET after == store \ question
                 current_set == paginate_questions(page_arg, order_by_id(store))
             IN  [raised |-> FALSE, store |-> after,
                  response |-> jsonify([success |-> TRUE,
                                        deleted |-> question_id,
                                        questions |-> current_set,
                                        total_questions |-> Cardinality(after)])]

\* the body of the try block: abort(404) raises, like any other failure
delete_question_try(store, question_id, page_arg) ==
    LET question == {q \in store : q.id = question_id}
    IN  IF question = {}
        THEN [raised |-> TRUE, store |-> store, response |-> not_found]
        ELSE LET after == store \ question
                 refreshed_set == order_by_id(after)
                 current_set == paginate_questions(page_arg, refreshed_set)
             IN  [raised |-> FALSE, store |-> after,
                  response |-> jsonify([success |-> TRUE,
                                        deleted |-> question_id,
                                        questions |-> current_set,
                                        total_questions |-> Cardinality(after)])]

\* try: ... except: abort(422)
delete_question_result(store, question_id, page_arg) ==
    LET t == delete_question_try(store, question_id, page_arg)
    IN  IF t.raised THEN [store |-> t.store, response |-> unprocessable]
        ELSE [store |-> t.store, response |-> t.response]

(***************************************************************************)
(* POST /questions                                                         *)
(***************************************************************************)
add_question_results(store, nid, body) ==
    IF body = None
    THEN {[store |-> store, next_id |-> nid, response |-> r] : r \in no_json_outcomes}
    ELSE IF ~ ("question" \in DOMAIN body /\ "answer" \in DOMAIN body /\
               "difficulty" \in DOMAIN body /\ "category" \in DOMAIN body)
    THEN {[store |-> store, next_id |-> nid, response |-> unprocessable]}
    ELSE LET question == Question(nid, get(body, "question"), get(body, "answer"),
                                  get(body, "difficulty"), get(body, "category"))
         IN  {[store |-> store \cup {question}, next_id |-> nid + 1,
               response |-> jsonify([success |-> TRUE, created |-> question.id])]}

(***************************************************************************)
(* POST /questions/search                                                  *)
(***************************************************************************)
\* variant: the pattern is '%{}' (no trailing wildcard)
search_questions_outcomes_suffix(store, body) ==
    IF body = None THEN no_json_outcomes
    ELSE LET search == get(body, "searchTerm")
         IN  IF ~ missing(body, "searchTerm") /\ search # << >>
             THEN LET found == order_by_id({q \in store :
                                   ilike(q.question, <<"%">> \o search)})
                      current_category == [i \in DOMAIN found |-> found[i].category]
                  IN  {jsonify([success |-> TRUE,
                                questions |-> formatted(found),
                                total_questions |-> Len(found),
                                current_category |-> current_category])}
             ELSE {not_found}

search_questions_outcomes(store, body) ==
    IF body = None THEN no_json_outcomes
    ELSE LET search == get(body, "searchTerm")
         IN  \* if search: neither None nor the empty string
             IF ~ missing(body, "searchTerm") /\ search # << >>
             THEN LET found == order_by_id({q \in store :
                                   ilike(q.question, <<"%">> \o search \o <<"%">>)})
                      current_category == [i \in DOMAIN found |-> found[i].category]
                  IN  {jsonify([success |-> TRUE,
                                questions |-> formatted(found),
                                total_questions |-> Len(found),
                                current_category |-> current_category])}
             ELSE {not_found}

(***************************************************************************)
(* GET /categories/<int:category_id>/questions                             *)
(***************************************************************************)
get_questions_by_category_response(store, category_id) ==
    LET found == order_by_id({q \in store : q.category = str(category_id)})
    IN  IF Len(found) = 0 THEN not_found
        ELSE jsonify([success |-> TRUE,
                      questions |-> formatted(found),
                      total_questions |-> Len(found),
                      current_category |-> category_id])

(***************************************************************************)
(* POST /quizzes                                                           *)
(***************************************************************************)
\* variant: the notin_ filter on previous_questions is left out
play_quiz_candidates_no_notin(store, previous_questions, quiz_category) ==
    IF quiz_category.type = "click"
    THEN store
    ELSE {q \in store : q.category = quiz_category.id}

\* variant: the filter_by(category=...) is left out
play_quiz_candidates_any_category(store, previous_questions, quiz_category) ==
    {q \in store : ~ InList(q.id, previous_questions)}

\* the two queries of play_quiz; previous_questions is a list here
play_quiz_candidates(store, previous_questions, quiz_category) ==
    IF quiz_category.type = "click"
    THEN {q \in store : ~ InList(q.id, previous_questions)}
    ELSE {q \in store : q.category = quiz_category.id /\
                        ~ InList(q.id, previous_questions)}

\* variant: previous_questions = body.get('previous_questions', [])
play_quiz_outcomes_default_previous(store, body) ==
    IF body = None THEN no_json_outcomes
    ELSE IF missing(body, "quiz_category")
         THEN {unprocessable}
         ELSE LET previous_questions == IF missing(body, "previous_questions")
                                        THEN << >>
                                        ELSE body.previous_questions
                  found == play_quiz_candidates(store, previous_questions,
                                                body.quiz_category)
              IN  IF Cardinality(found) > 0
                  THEN {jsonify([success |-> TRUE, question |-> format(q)]) :
                          q \in found}
                  ELSE {jsonify([success |-> TRUE, question |-> None])}

play_quiz_outcomes(store, body) ==
    IF body = None THEN no_json_outcomes
    ELSE LET previous_questions == get(body, "previous_questions")
             quiz_category == get(body, "quiz_category")
         IN  \* None['type'] and notin_(None) raise inside the try block
             IF missing(body, "quiz_category") \/ missing(body, "previous_questions")
             THEN {unprocessable}
             ELSE LET found == play_quiz_candidates(store, previous_questions,
                                                    quiz_category)
                  IN  IF Cardinality(found) > 0
                      THEN {jsonify([success |-> TRUE, question |-> format(q)]) :
                              q \in found}
                      ELSE {jsonify([success |-> TRUE, question |-> None])}

(***************************************************************************)
(* Requests the clients send.                                              *)
(***************************************************************************)
PageArgs == {<< >>} \cup {<<p>> : p \in 1..MaxPage}

Without(body, key) == [k \in DOMAIN body \ {key} |-> body[k]]

CompleteBodies ==
    {[question |-> <<"A", "b">>, answer |-> "yes", difficulty |-> 1, category |-> "1"],
     [question |-> <<"b">>, answer |-> "no", difficulty |-> 2, category |-> "1"],
     [question |-> <<"a", "%">>, answer |-> "yes", difficulty |-> 2, category |-> "2"]}

IncompleteBodies ==
    LET full == [question |-> <<"A", "b">>, answer |-> "yes", difficulty |-> 1, category |-> "1"]
    IN  {Without(full, k) : k \in DOMAIN full} \cup {<< >>}

AddBodies == CompleteBodies \cup IncompleteBodies \cup {None}

SearchTerms == {<< >>, <<"a">>, <<"B">>, <<"%">>, <<"z">>}

SearchBodies == {[searchTerm |-> t] : t \in SearchTerms} \cup {<< >>, None}

CategoryIds == 1..3

QuizCategories ==
    {[type |-> "click", id |-> "0"],
     [type |-> "Science", id |-> "1"],
     [type |-> "Art", id |-> "2"]}

RECURSIVE SetToSeq(_)
SetToSeq(S) ==
    IF S = {} THEN << >>
    ELSE LET m == CHOOSE x \in S : \A y \in S : x <= y
         IN  <<m>> \o SetToSeq(S \ {m})

PreviousLists == {SetToSeq(S) : S \in SUBSET (1..MaxId)}

QuizBodies ==
    {[previous_questions |-> p, quiz_category |-> c] :
        p \in PreviousLists, c \in QuizCategories}
    \cup {[previous_questions |-> p] : p \in PreviousLists}
    \cup {[quiz_category |-> c] : c \in QuizCategories}
    \cup {<< >>, None}

(***************************************************************************)
(* The service: one action per endpoint.                                   *)
(***************************************************************************)
Init ==
    /\ questions = {}
    /\ next_id = 1
    /\ categories \in {<< >>, SeededCategories}
    /\ request = [op |-> "none"]
    /\ response = None
    /\ session = None

get_categories ==
    /\ request' = [op |-> "get_categories"]
    /\ response' = get_categories_response(categories)
    /\ UNCHANGED <<questions, next_id, categories, session>>

get_questions ==
    \E page_arg \in PageArgs :
        /\ request' = [op |-> "get_questions", page |-> page_arg]
        /\ response' = get_questions_response(questions, categories, page_arg)
        /\ UNCHANGED <<questions, next_id, categories, session>>

\* ids handed out that are no longer in the store
Deleted(store, nid) == (nid - 1) - Cardinality(store)

delete_question ==
    \E question_id \in 1..next_id, page_arg \in PageArgs :
        LET r == delete_question_result(questions, question_id, page_arg)
        IN  /\ question_id \in Ids(questions) => Deleted(questions, next_id) < MaxDeletes
            /\ request' = [op |-> "delete_question", question_id |-> question_id,
                           page |-> page_arg]
            /\ questions' = r.store
            /\ response' = r.response
            /\ UNCHANGED <<next_id, categories, session>>

add_question ==
    \E body \in AddBodies :
        /\ next_id <= MaxId
        /\ \E r \in add_question_results(questions, next_id, body) :
              /\ request' = [op |-> "add_question", body |-> body]
              /\ questions' = r.store
              /\ next_id' = r.next_id
              /\ response' = r.response
        /\ UNCHANGED <<categories, session>>

search_questions ==
    \E body \in SearchBodies :
        /\ request' = [op |-> "search_questions", body |-> body]
        /\ response' \in search_questions_outcomes(questions, body)
        /\ UNCHANGED <<questions, next_id, categories, session>>

get_questions_by_category ==
    \E category_id \in CategoryIds :
        /\ request' = [op |-> "get_questions_by_category", category_id |-> category_id]
        /\ response' = get_questions_by_category_response(questions, category_id)
        /\ UNCHANGED <<questions, next_id, categories, session>>

play_quiz ==
    \E body \in QuizBodies :
        /\ request' = [op |-> "play_quiz", body |-> body]
        /\ response' \in play_quiz_outcomes(questions, body)
        /\ UNCHANGED <<questions, next_id, categories, session>>

Next ==
    \/ get_categories
    \/ get_questions
    \/ delete_question
    \/ add_question
    \/ search_questions
    \/ get_questions_by_category
    \/ play_quiz

Spec == Init /\ [][Next]_vars

(***************************************************************************)
(* Seeded stores: the database holds questions before the first request.   *)
(***************************************************************************)
SeedQuestion(id) ==
    Question(id,
             IF id % 3 = 0 THEN <<"a", "%">> ELSE IF id % 3 = 1 THEN <<"A", "b">> ELSE <<"b">>,
             IF id % 2 = 0 THEN "yes" ELSE "no",
             1 + (id % 2),
             str(1 + ((id - 1) % 2)))

\* n questions whose ids are stride apart
SeedStore(n, stride) == {SeedQuestion(i * stride) : i \in 1..n}

(***************************************************************************)
(* SpecPaginate: paginate_questions applied to seeded selections.          *)
(***************************************************************************)
InitPaginate ==
    \E n \in 0..MaxLen, stride \in 1..2 :
        /\ questions = SeedStore(n, stride)
        /\ next_id = n * stride + 1
        /\ categories = SeededCategories
        /\ request = [op |-> "none"]
        /\ response = None
        /\ session = None

paginate_call ==
    \E page_arg \in PageArgs :
        /\ request' = [op |-> "paginate_questions", page |-> page_arg]
        /\ response' = [result |-> paginate_questions(page_arg, order_by_id(questions))]
        /\ UNCHANGED <<questions, next_id, categories, session>>

NextPaginate == paginate_call

SpecPaginate == InitPaginate /\ [][NextPaginate]_vars

(***************************************************************************)
(* SpecPages: listing and deleting on stores of more than one page.        *)
(***************************************************************************)
InitPages ==
    \E n \in 0..MaxSeed :
        /\ questions = SeedStore(n, 1)
        /\ next_id = n + 1
        /\ categories = SeededCategories
        /\ request = [op |-> "none"]
        /\ response = None
        /\ session = None

NextPages == get_questions \/ delete_question

SpecPages == InitPages /\ [][NextPages]_vars

(***************************************************************************)
(* SpecQuiz: a quiz session.  The client keeps previous_questions, sends   *)
(* it with a fixed quiz_category on every call and appends the id of each  *)
(* question it is served; the store is not modified meanwhile.             *)
(***************************************************************************)
InitQuiz ==
    /\ questions \in SUBSET SeedStore(MaxPool, 1)
    /\ next_id = MaxPool + 1
    /\ categories = SeededCategories
    /\ request = [op |-> "none"]
    /\ response = None
    /\ \E c \in QuizCategories :
          session = [quiz_category |-> c, previous_questions |-> << >>,
                     calls |-> 0, nulls |-> 0]

quiz_session_call ==
    LET body == [previous_questions |-> session.previous_questions,
                 quiz_category |-> session.quiz_category]
    IN  /\ session.nulls <= MaxExtraCalls
        /\ \E r \in play_quiz_outcomes(questions, body) :
              /\ request' = [op |-> "play_quiz", body |-> body]
              /\ response' = r
              /\ session' =
                   IF r.body.question = None
                   THEN [session EXCEPT !.calls = @ + 1, !.nulls = @ + 1]
                   ELSE [session EXCEPT !.calls = @ + 1,
                           !.previous_questions = Append(@, r.body.question.id)]
        /\ UNCHANGED <<questions, next_id, categories>>

NextQuiz == quiz_session_call

SpecQuiz == InitQuiz /\ [][NextQuiz]_vars

(***************************************************************************)
(* Vocabulary of the properties, stated without the handlers' helpers.     *)
(***************************************************************************)
Range(seq) == {seq[i] : i \in DOMAIN seq}

\* position of q in the id order of store, counted from 1
Rank(store, q) == Cardinality({r \in store : r.id <= q.id})

\* the questions at positions (p-1)*10+1 .. min(p*10, L) of the id order
ExpectedPage(store, p) ==
    LET L     == Cardinality(store)
        first == (p - 1) * 10 + 1
        last  == Min(p * 10, L)
        at(k) == CHOOSE q \in store : Rank(store, q) = k
    IN  IF last < first THEN << >>
        ELSE [k \in 1..(last - first + 1) |-> format(at(first + k - 1))]

\* term occurs in text, letter case ignored
Contains(text, term) ==
    \E i \in 0..(Len(text) - Len(term)) :
        \A j \in 1..Len(term) : Lower(text[i + j]) = Lower(term[j])

\* the questions a quiz category descriptor selects
Matching(store, quiz_category) ==
    IF quiz_category.type = "click" THEN store
    ELSE {q \in store : q.category = quiz_category.id}

RequiredKeys == {"question", "answer", "difficulty", "category"}

(***************************************************************************)
(* C1  For every page p >= 1 and every id-ordered selection of length L,   *)
(* paginate_questions returns exactly the elements at positions            *)
(* (p-1)*10+1 .. min(p*10, L) in their order: min(10, max(0, L-(p-1)*10))  *)
(* elements, none (and no error) beyond the last page.                     *)
(***************************************************************************)
C1_PageSlice ==
    request.op = "paginate_questions" =>
        LET p   == IF request.page = << >> THEN 1 ELSE request.page[1]
            L   == Cardinality(questions)
            res == response.result
        IN  /\ Len(res) = Min(10, Max(0, L - (p - 1) * 10))
            /\ res = ExpectedPage(questions, p)
            /\ \A k \in 1..Len(res) :
                  Rank(questions, CHOOSE q \in questions : q.id = res[k].id)
                      = (p - 1) * 10 + k

C1_Witness ==
    /\ request.op = "paginate_questions"
    /\ request.page = <<2>>
    /\ Cardinality(questions) = 15
    /\ Len(response.result) = 5
    /\ response.result[1].id = 22

(***************************************************************************)
(* C2  POST /quizzes with both fields answers with a question of the       *)
(* candidate set C (questions matching the category filter whose id is not *)
(* in previous_questions); the returned id is never in previous_questions; *)
(* and question is null, with success true, exactly when C is empty.       *)
(***************************************************************************)
C2_QuizSelection ==
    (/\ request.op = "play_quiz"
     /\ request.body # None
     /\ {"previous_questions", "quiz_category"} \subseteq DOMAIN request.body) =>
        LET previous == Range(request.body.previous_questions)
            C == {q \in Matching(questions, request.body.quiz_category) :
                     q.id \notin previous}
        IN  /\ response.status = 200
            /\ response.body.success = TRUE
            /\ (response.body.question = None) <=> (C = {})
            /\ response.body.question # None =>
                  /\ response.body.question \in {format(q) : q \in C}
                  /\ response.body.question.id \notin previous

C2_Witness ==
    /\ request.op = "play_quiz"
    /\ request.body # None
    /\ {"previous_questions", "quiz_category"} \subseteq DOMAIN request.body
    /\ request.body.quiz_category.type # "click"
    /\ response.body.question # None
    /\ \E q \in questions : /\ q.category = request.body.quiz_category.id
                            /\ q.id \in Range(request.body.previous_questions)
    /\ \E q \in questions : q.category # request.body.quiz_category.id

(***************************************************************************)
(* C3  DELETE /questions/<id> for an id that is not in the store answers   *)
(* NotFound (404), not success and not 422, and leaves the store unchanged.*)
(***************************************************************************)
C3_DeleteMissingIsNotFound ==
    [][(/\ request'.op = "delete_question"
        /\ request'.question_id \notin Ids(questions)) =>
          /\ response'.status = 404
          /\ questions' = questions]_vars

(***************************************************************************)
(* C4  After a successful POST /questions the store holds exactly one more *)
(* question, and that question, under the id returned as created, is       *)
(* returned with the posted question, answer, difficulty and category by   *)
(* the paginated list (on some page), by every search whose term is a      *)
(* non-empty substring of its text, and by the list of its category.       *)
(***************************************************************************)
C4_CreatedIsRetrievable ==
    [][(/\ request'.op = "add_question"
        /\ response'.status = 200) =>
          LET b == request'.body
              q == [id |-> response'.body.created, question |-> b.question,
                    answer |-> b.answer, difficulty |-> b.difficulty,
                    category |-> b.category]
              subterms == {SubSeq(b.question, i, j) :
                              i \in 1..Len(b.question), j \in 1..Len(b.question)}
                          \ {<< >>}
          IN  /\ response'.body.success = TRUE
              /\ Cardinality(questions') = Cardinality(questions) + 1
              /\ questions \subseteq questions'
              /\ \E page_arg \in PageArgs :
                    LET r == get_questions_response(questions', categories', page_arg)
                    IN  r.body.success /\ q \in Range(r.body.questions)
              /\ \A t \in subterms :
                    \A r \in search_questions_outcomes(questions', [searchTerm |-> t]) :
                        r.status = 200 /\ q \in Range(r.body.questions)
              /\ \E c \in CategoryIds :
                    LET r == get_questions_by_category_response(questions', c)
                    IN  r.status = 200 /\ r.body.current_category = c
                        /\ q \in Range(r.body.questions)]_vars

C4_Witness ==
    /\ request.op = "add_question"
    /\ response.status = 200
    /\ Cardinality(questions) = 3
    /\ request.body.category = "2"
    /\ \E q \in questions : q.id = response.body.created /\ q.question = <<"a", "%">>

(***************************************************************************)
(* C5  POST /questions whose body lacks any of the keys question, answer,  *)
(* difficulty, category (a body with no keys, or no JSON body, included)   *)
(* answers 422 and inserts nothing.                                        *)
(***************************************************************************)
C5_IncompleteBodyIs422 ==
    [][(/\ request'.op = "add_question"
        /\ \/ request'.body = None
           \/ ~ (RequiredKeys \subseteq DOMAIN request'.body)) =>
          /\ response'.status = 422
          /\ questions' = questions]_vars

(***************************************************************************)
(* C6  A successful DELETE /questions/<id> removes exactly that question,  *)
(* leaves every other question and every category unchanged, and answers   *)
(* deleted = id, total_questions = (size before) - 1 and questions = the   *)
(* requested page (size 10) of the id-ordered store after the deletion.    *)
(***************************************************************************)
C6_DeleteFrame ==
    [][(/\ request'.op = "delete_question"
        /\ response'.status = 200) =>
          LET id == request'.question_id
              p  == IF request'.page = << >> THEN 1 ELSE request'.page[1]
          IN  /\ id \in Ids(questions)
              /\ questions' = {q \in questions : q.id # id}
              /\ categories' = categories
              /\ response'.body.success = TRUE
              /\ response'.body.deleted = id
              /\ response'.body.total_questions = Cardinality(questions) - 1
              /\ response'.body.questions = ExpectedPage(questions', p)]_vars

C6_Witness ==
    /\ request.op = "delete_question"
    /\ response.status = 200
    /\ request.page = <<1>>
    /\ response.body.deleted = 3
    /\ response.body.total_questions = 10
    /\ Len(response.body.questions) = 10
    /\ response.body.questions[10].id = 11

C8_SearchExactSubstring ==
    (request.op = "search_questions" /\ request.body # None) =>
        IF "searchTerm" \in DOMAIN request.body /\ request.body.searchTerm # << >>
        THEN LET hits == {q \in questions : Contains(q.question, request.body.searchTerm)}
                 cats == response.body.current_category
             IN  /\ response.status = 200
                 /\ response.body.success = TRUE
                 /\ Range(response.body.questions) = {format(q) : q \in hits}
                 /\ Len(response.body.questions) = Cardinality(hits)
                 /\ response.body.total_questions = Cardinality(hits)
                 /\ Range(cats) = {q.category : q \in hits}
                 /\ \A i, j \in DOMAIN cats : cats[i] = cats[j] => i = j
        ELSE response.status = 404

C10_QuizSession ==
    LET prev    == session.previous_questions
        matched == Ids(Matching(questions, session.quiz_category))
        N       == Cardinality(matched)
    IN  /\ \A i, j \in DOMAIN prev : prev[i] = prev[j] => i = j
        /\ Range(prev) \subseteq matched
        /\ session.calls = Len(prev) + session.nulls
        /\ session.calls <= N => session.nulls = 0
        /\ session.nulls > 0 => Range(prev) = matched /\ Len(prev) = N
        /\ request.op = "play_quiz" =>
              /\ response.status = 200
              /\ (response.body.question = None) <=> (session.nulls > 0)

C10_Witness ==
    /\ request.op = "play_quiz"
    /\ session.quiz_category.type = "Science"
    /\ Cardinality(questions) = MaxPool
    /\ Len(session.previous_questions) = 2
    /\ session.nulls = 2
    /\ response.body.question = None

====
